---------------------------- MODULE Spec2Model ----------------------------
(***************************************************************************)
(* A model of the linalg package: the Vector and Matrix value types        *)
(* (src/linalg/vector.py, src/linalg/matrix.py) and the free functions of  *)
(* src/linalg/utils.py, in particular the row reduction echelon_form.      *)
(*                                                                         *)
(* Scalars are exact rationals <<n, d>> in lowest terms with d > 0, so     *)
(* that the true division of echelon_form is computed and not assumed.     *)
(* Python indices are kept 0-based as in the source; a TLA+ sequence is    *)
(* indexed from 1, so element k of a tuple t is t[k + 1].                  *)
(***************************************************************************)
EXTENDS Integers, Sequences, FiniteSets, TLC

(***************************************************************************)
(* Bounds of the model.                                                    *)
(***************************************************************************)
\* Most arguments, and longest argument, of a constructor call.
MaxArgs == 2
MaxLen == 1
\* Largest height and width of a matrix given to echelon_form.
MaxH == 3
MaxW == 2
\* The names a caller binds objects to.
Slots == {1, 2}
\* Largest exponent given to **.
MaxExp == 2
\* The integers a caller puts into a matrix.
Entries == {0, 1}

(***************************************************************************)
(* Scalar arithmetic: exact rationals.                                     *)
(***************************************************************************)
Abs(n) == IF n < 0 THEN 0 - n ELSE n

Min(a, b) == IF a <= b THEN a ELSE b

RECURSIVE Gcd(_, _)
Gcd(a, b) == IF b = 0 THEN a ELSE Gcd(b, a % b)

\* The rational n / d (d > 0) in lowest terms.
Norm(n, d) ==
    LET g == Gcd(Abs(n), d)
    IN  IF n < 0 THEN <<0 - (Abs(n) \div g), d \div g>> ELSE <<n \div g, d \div g>>

Num(k) == <<k, 1>>

Zero == Num(0)

One == Num(1)

RAdd(x, y) == Norm(x[1] * y[2] + y[1] * x[2], x[2] * y[2])

RSub(x, y) == Norm(x[1] * y[2] - y[1] * x[2], x[2] * y[2])

RMul(x, y) == Norm(x[1] * y[1], x[2] * y[2])

\* x / y for y # 0; the caller raises ZeroDivisionError when y = 0.
RDiv(x, y) ==
    IF y[1] < 0 THEN Norm(0 - (x[1] * y[2]), x[2] * (0 - y[1]))
    ELSE Norm(x[1] * y[2], x[2] * y[1])

(***************************************************************************)
(* Vector: the tuple _v.                                                   *)
(***************************************************************************)
\* zip(a, b) stops at the shorter operand.
ZipLen(a, b) == Min(Len(a), Len(b))

\* Vector.__add__
VectorAdd(a, b) == [k \in 1..ZipLen(a, b) |-> RAdd(a[k], b[k])]

\* Vector.__sub__
VectorSub(a, b) == [k \in 1..ZipLen(a, b) |-> RSub(a[k], b[k])]

\* Vector.__mul__ with a Number
VectorMul(a, s) == [k \in 1..Len(a) |-> RMul(s, a[k])]

(***************************************************************************)
(* utils.py                                                                *)
(***************************************************************************)
kronecker_delta(a, b) == IF a = b THEN One ELSE Zero

RECURSIVE LeadFrom(_, _)
LeadFrom(v, idx) ==
    IF idx < Len(v) /\ v[idx + 1] = Zero THEN LeadFrom(v, idx + 1) ELSE idx

\* A leading_entry whose loop test is inverted: the index of the first zero.
RECURSIVE FirstZeroFrom(_, _)
FirstZeroFrom(v, idx) ==
    IF idx < Len(v) /\ v[idx + 1] # Zero THEN FirstZeroFrom(v, idx + 1) ELSE idx

leading_entry_inverted(v) == FirstZeroFrom(v, 0)

\* The 0-based index of the first non-zero element, len(v) for a zero vector.
leading_entry(v) == LeadFrom(v, 0)

RECURSIVE SumTo(_, _, _)
SumTo(a, b, n) == IF n = 0 THEN Zero ELSE RAdd(SumTo(a, b, n - 1), RMul(a[n], b[n]))

inner_product(a, b) == SumTo(a, b, ZipLen(a, b))

(***************************************************************************)
(* Matrix: the fields _m, _h, _w.                                          *)
(***************************************************************************)
\* zip(*m): the columns of the row tuple m, none when m has no rows.
ZipStar(m) ==
    IF Len(m) = 0 THEN <<>>
    ELSE [c \in 1..Len(m[1]) |-> [r \in 1..Len(m) |-> m[r][c]]]

Ragged(args) == Cardinality({Len(args[k]) : k \in DOMAIN args}) > 1

\* A constructor that keeps the shape it was given.
MatrixNewAsGiven(args, columns) ==
    LET m0 == IF columns THEN ZipStar(args) ELSE args
        h0 == Len(m0)
        w0 == IF h0 # 0 THEN Len(m0[1]) ELSE 0
    IN  [kind |-> "Matrix", m |-> m0, h |-> h0, w |-> w0]

\* Matrix.__init__ for arguments of one length.
MatrixNew(args, columns) ==
    LET m0 == IF columns THEN ZipStar(args) ELSE args
        h0 == Len(m0)
        w0 == IF h0 # 0 THEN Len(m0[1]) ELSE 0
    IN  IF h0 = 0 \/ w0 = 0
        THEN [kind |-> "Matrix", m |-> << <<>> >>, h |-> 0, w |-> 0]
        ELSE [kind |-> "Matrix", m |-> m0, h |-> h0, w |-> w0]


\* Matrix.rows: a fresh Vector for each stored row.
rows_of(M) == M.m

\* Matrix.columns: a fresh Vector for each column.
columns_of(M) == ZipStar(M.m)

\* An outcome of a call: a returned value, or the exception raised.
Returned(val) == [kind |-> val.kind, val |-> val]

Raised(exc) == [kind |-> exc, val |-> 0]

Vector(t) == [kind |-> "Vector", v |-> t]

\* Matrix.__init__
Matrix(args, columns) ==
    IF Ragged(args) THEN Raised("ValueError") ELSE Returned(MatrixNew(args, columns))

\* Matrix.dimensions
dimensions(M) == <<M.w, M.h>>

\* Matrix.is_square
is_square(M) == M.w = M.h

\* Matrix.row
row_at(M, k) == Vector(M.m[k + 1])

\* Matrix.column
column_at(M, k) == Vector(ZipStar(M.m)[k + 1])

\* utils.identity
identity(n) ==
    MatrixNew([j \in 1..n |-> [k \in 1..n |-> kronecker_delta(k, j)]], FALSE)

\* Matrix.__add__
Matrix_add(A, B) ==
    IF dimensions(A) = dimensions(B)
    THEN Matrix([r \in 1..ZipLen(A.m, B.m) |-> VectorAdd(A.m[r], B.m[r])], FALSE)
    ELSE Raised("ValueError")

\* Matrix._scale
Matrix_scale(A, scalar) ==
    Matrix([r \in 1..Len(rows_of(A)) |-> VectorMul(rows_of(A)[r], scalar)], FALSE)

\* Matrix.__sub__
Matrix_sub(A, B) == Matrix_add(A, Matrix_scale(B, Num(-1)).val)

\* Matrix._mul
Matrix_mul(A, B) ==
    Matrix([r \in 1..Len(rows_of(A)) |->
               [c \in 1..Len(columns_of(B)) |->
                   inner_product(rows_of(A)[r], columns_of(B)[c])]], FALSE)

\* Matrix._vecmul
Matrix_vecmul(A, x) ==
    Returned(Vector([r \in 1..Len(rows_of(A)) |-> inner_product(rows_of(A)[r], x.v)]))

\* Matrix.augment with one argument, a Matrix or a Vector
augment(A, aug) ==
    Matrix(columns_of(A) \o (IF aug.kind = "Matrix" THEN columns_of(aug) ELSE <<aug.v>>),
           TRUE)

IsInt(x) == x[2] = 1

\* result = identity(self.width); for x in range(idx): result *= self
RECURSIVE PowerLoop(_, _)
PowerLoop(A, n) ==
    IF n = 0 THEN identity(A.w) ELSE Matrix_mul(PowerLoop(A, n - 1), A).val

\* Matrix.__pow__
Matrix_pow(A, e) ==
    IF ~(is_square(A) \/ IsInt(e)) THEN Raised("NotImplemented")
    ELSE IF e[1] >= 0
    THEN IF IsInt(e) THEN Returned(PowerLoop(A, e[1])) ELSE Raised("TypeError")
    ELSE Raised("NotImplemented")

\* Matrix.determinant: Matrix defines no row_echelon_form, so the lookup in
\* the loop header raises before any entry is read.
determinant(A) ==
    IF is_square(A) THEN Raised("AttributeError") ELSE Raised("NotImplementedError")

(***************************************************************************)
(* echelon_form, statement by statement.                                   *)
(***************************************************************************)
\* The position at which list.sort, being stable, places v in a sorted list.
InsertAt(s, v) == Cardinality({k \in DOMAIN s : leading_entry(s[k]) <= leading_entry(v)})

Insert(s, v) ==
    LET p == InsertAt(s, v)
    IN  SubSeq(s, 1, p) \o <<v>> \o SubSeq(s, p + 1, Len(s))

RECURSIVE SortPrefix(_, _)
SortPrefix(list, n) ==
    IF n = 0 THEN <<>> ELSE Insert(SortPrefix(list, n - 1), list[n])

\* rows.sort(key=leading_entry)
SortByLead(list) == SortPrefix(list, Len(list))

\* rows[i] -= row * (rows[i][lead] / row[lead])
Eliminate(lower, pivot, ld) ==
    VectorSub(lower, VectorMul(pivot, RDiv(lower[ld + 1], pivot[ld + 1])))

(***************************************************************************)
(* State.  heap holds the live Matrix and Vector objects, made the call    *)
(* that returned each of them, out the outcome of the last finished call.  *)
(* The remaining variables are the locals of a running echelon_form.       *)
(* out.args names a Matrix operand by its index in heap and gives a        *)
(* scalar or a Vector operand by value; out.val is the returned object or  *)
(* number, 0 after an exception.                                           *)
(***************************************************************************)
VARIABLES heap, made, out, pc, src, rows, idx, i, row, lead

vars == <<heap, made, out, pc, src, rows, idx, i, row, lead>>

NoOut == [op |-> "none", args |-> <<>>, kind |-> "none", val |-> 0]

Idle ==
    /\ pc = "idle"
    /\ src = 0
    /\ rows = <<>>
    /\ idx = 0
    /\ i = 0
    /\ row = <<>>
    /\ lead = 0

\* The tuples of length 0..n over the set S.
TuplesUpTo(S, n) == UNION {[1..k -> S] : k \in 0..n}

\* What a caller passes to the constructor: n arguments at most, each of
\* len entries at most, of equal length or not.
CtorArgs(n, len) == TuplesUpTo(TuplesUpTo({Num(e) : e \in Entries}, len), n)

\* The state after one successful construction, in row or in column mode.
Constructed(n, len) ==
    /\ \E args \in CtorArgs(n, len), columns \in BOOLEAN :
        /\ Matrix(args, columns).kind = "Matrix"
        /\ heap = <<Matrix(args, columns).val>>
    /\ made = <<[op |-> "Matrix", args |-> <<>>]>>
    /\ out = NoOut
    /\ Idle

Init == Constructed(MaxArgs, MaxLen)

InitEchelon == Constructed(MaxH, MaxW)

\* A call that is not echelon_form returns or raises in one step.
Finish(opname, args, res) ==
    /\ out' = [op |-> opname, args |-> args, kind |-> res.kind, val |-> res.val]
    /\ UNCHANGED <<heap, made, pc, src, rows, idx, i, row, lead>>

\* The caller starts a call once the last result is bound or dropped.
Ready ==
    /\ pc = "idle"
    /\ out = NoOut

\* The caller lets the returned value go.
Drop ==
    /\ pc = "idle"
    /\ out # NoOut
    /\ out' = NoOut
    /\ UNCHANGED <<heap, made, pc, src, rows, idx, i, row, lead>>

\* The caller binds the returned object to a free name.
Keep ==
    /\ pc = "idle"
    /\ out.kind \in {"Matrix", "Vector"}
    /\ Len(heap) + 1 \in Slots
    /\ heap' = Append(heap, out.val)
    /\ made' = Append(made, [op |-> out.op, args |-> out.args])
    /\ out' = NoOut
    /\ UNCHANGED <<pc, src, rows, idx, i, row, lead>>

\* The Matrix operands of a call: the bound matrices, by index.
Matrices == {k \in DOMAIN heap : heap[k].kind = "Matrix"}

\* The Vector operands of a call: a bound Vector, or M.row(k), M.column(k)
\* of a bound Matrix.
Vectors ==
    {heap[k] : k \in {j \in DOMAIN heap : heap[j].kind = "Vector"}}
    \cup UNION {{row_at(heap[a], k) : k \in 0..(heap[a].h - 1)} : a \in Matrices}
    \cup UNION {{column_at(heap[a], k) : k \in 0..(heap[a].w - 1)} : a \in Matrices}

\* The numbers a caller scales by.
Scalars == {Num(0 - 1), Num(2)}

\* The exponents a caller gives to **: integers, and one that is not.
Exponents == {Num(n) : n \in (0 - 1)..MaxExp} \cup {<<1, 2>>}

Identity ==
    /\ Ready
    /\ \E n \in 0..MaxArgs : Finish("identity", <<n>>, Returned(identity(n)))

Add ==
    /\ Ready
    /\ \E a \in Matrices, b \in Matrices :
        Finish("add", <<a, b>>, Matrix_add(heap[a], heap[b]))

Sub ==
    /\ Ready
    /\ \E a \in Matrices, b \in Matrices :
        Finish("sub", <<a, b>>, Matrix_sub(heap[a], heap[b]))

Scale ==
    /\ Ready
    /\ \E a \in Matrices, scalar \in Scalars :
        Finish("scale", <<a, scalar>>, Matrix_scale(heap[a], scalar))

Mul ==
    /\ Ready
    /\ \E a \in Matrices, b \in Matrices :
        Finish("mul", <<a, b>>, Matrix_mul(heap[a], heap[b]))

VecMul ==
    /\ Ready
    /\ \E a \in Matrices, x \in Vectors :
        Finish("vecmul", <<a, x>>, Matrix_vecmul(heap[a], x))

Augment ==
    /\ Ready
    /\ \E a \in Matrices, b \in {heap[k] : k \in Matrices} \cup Vectors :
        Finish("augment", <<a, b>>, augment(heap[a], b))

Pow ==
    /\ Ready
    /\ \E a \in Matrices, e \in Exponents :
        Finish("pow", <<a, e>>, Matrix_pow(heap[a], e))

Determinant ==
    /\ Ready
    /\ \E a \in Matrices : Finish("determinant", <<a>>, determinant(heap[a]))

Row ==
    /\ Ready
    /\ \E a \in Matrices :
        \E k \in 0..(heap[a].h - 1) : Finish("row", <<a, k>>, Returned(row_at(heap[a], k)))

Column ==
    /\ Ready
    /\ \E a \in Matrices :
        \E k \in 0..(heap[a].w - 1) :
            Finish("column", <<a, k>>, Returned(column_at(heap[a], k)))

VecAdd ==
    /\ Ready
    /\ \E a \in Vectors, b \in Vectors :
        Finish("vadd", <<a, b>>, Returned(Vector(VectorAdd(a.v, b.v))))

VecSub ==
    /\ Ready
    /\ \E a \in Vectors, b \in Vectors :
        Finish("vsub", <<a, b>>, Returned(Vector(VectorSub(a.v, b.v))))

\* rows = list(M.rows())
EchelonCall ==
    /\ Ready
    /\ \E k \in Matrices :
        /\ src' = k
        /\ rows' = rows_of(heap[k])
    /\ idx' = 0
    /\ pc' = "outer"
    /\ UNCHANGED <<heap, made, out, i, row, lead>>

\* for idx, row in enumerate(rows): lead = leading_entry(row); ...
OuterStep ==
    /\ pc = "outer"
    /\ IF idx >= Len(rows)
       THEN /\ pc' = "sort"
            /\ UNCHANGED <<idx, i, row, lead>>
       ELSE /\ row' = rows[idx + 1]
            /\ lead' = leading_entry(rows[idx + 1])
            /\ IF lead' = heap[src].w
               THEN /\ idx' = idx + 1
                    /\ pc' = "outer"
                    /\ UNCHANGED i
               ELSE /\ i' = idx + 1
                    /\ pc' = "inner"
                    /\ UNCHANGED idx
    /\ UNCHANGED <<heap, made, out, src, rows>>

\* The divisor of the elimination step.
Divisor == row[lead + 1]

\* An assignment that writes through to the rows stored in M.
StoreRowShared(k, v) ==
    /\ rows' = [rows EXCEPT ![k + 1] = v]
    /\ heap' = [heap EXCEPT ![src].m[k + 1] = v]
    /\ UNCHANGED made

\* rows[k] = v: the list rows is the function's own, M keeps its tuples.
StoreRow(k, v) ==
    /\ rows' = [rows EXCEPT ![k + 1] = v]
    /\ UNCHANGED <<heap, made>>

\* for i in range(idx + 1, M.height): ...
InnerStep ==
    /\ pc = "inner"
    /\ IF i >= heap[src].h
       THEN /\ idx' = idx + 1
            /\ pc' = "outer"
            /\ UNCHANGED <<heap, made, out, src, rows, i, row, lead>>
       ELSE IF leading_entry(rows[i + 1]) # lead
       THEN /\ i' = i + 1
            /\ UNCHANGED <<heap, made, out, pc, src, rows, idx, row, lead>>
       ELSE IF Divisor = Zero
       THEN /\ out' = [op |-> "echelon_form", args |-> <<src>>,
                       kind |-> "ZeroDivisionError", val |-> 0]
            /\ pc' = "idle"
            /\ src' = 0
            /\ rows' = <<>>
            /\ idx' = 0
            /\ i' = 0
            /\ row' = <<>>
            /\ lead' = 0
            /\ UNCHANGED <<heap, made>>
       ELSE /\ StoreRow(i, Eliminate(rows[i + 1], row, lead))
            /\ i' = i + 1
            /\ UNCHANGED <<out, pc, src, idx, row, lead>>

\* rows.sort(key=leading_entry); return Matrix(*rows)
SortReturn ==
    /\ pc = "sort"
    /\ out' = [op |-> "echelon_form", args |-> <<src>>, kind |-> "Matrix",
               val |-> MatrixNew(SortByLead(rows), FALSE)]
    /\ pc' = "idle"
    /\ src' = 0
    /\ rows' = <<>>
    /\ idx' = 0
    /\ i' = 0
    /\ row' = <<>>
    /\ lead' = 0
    /\ UNCHANGED <<heap, made>>

NextEchelon ==
    \/ EchelonCall
    \/ OuterStep
    \/ InnerStep
    \/ SortReturn
    \/ Keep
    \/ Drop

SpecEchelon == InitEchelon /\ [][NextEchelon]_vars

Next ==
    \/ Identity
    \/ Add
    \/ Sub
    \/ Scale
    \/ Mul
    \/ VecMul
    \/ Augment
    \/ Pow
    \/ Determinant
    \/ Row
    \/ Column
    \/ VecAdd
    \/ VecSub
    \/ EchelonCall
    \/ OuterStep
    \/ InnerStep
    \/ SortReturn
    \/ Keep
    \/ Drop

Spec == Init /\ [][Next]_vars


(***************************************************************************)
(* Properties.                                                             *)
(***************************************************************************)
\* The operands of the last finished call, for a call on bound matrices.
Operand == heap[out.args[1]]

Operand2 == heap[out.args[2]]

\* Row-echelon form: a non-zero row has a non-zero row above it whose leading
\* index is smaller, so zero rows come last.
IsRowEchelon(M) ==
    \A k \in 1..(Len(M.m) - 1) :
        leading_entry(M.m[k + 1]) < M.w =>
            leading_entry(M.m[k]) < leading_entry(M.m[k + 1])

\* C1: every matrix returned by echelon_form is in row-echelon form: the
\* leading indices of its non-zero rows strictly increase going down, and its
\* zero rows come last.
C1_EchelonFormIsRowEchelon ==
    (out.op = "echelon_form" /\ out.kind = "Matrix") => IsRowEchelon(out.val)

\* C2: echelon_form is idempotent: applied to a matrix that echelon_form
\* returned, it returns an equal matrix.
C2_EchelonFormIdempotent ==
    (/\ out.op = "echelon_form"
     /\ out.kind = "Matrix"
     /\ made[out.args[1]].op = "echelon_form") => out.val.m = Operand.m

\* C3: the determinant of identity(n), n >= 1, completes with the value 1.
C3_DeterminantOfIdentity ==
    (/\ out.op = "determinant"
     /\ Operand.h >= 1
     /\ Operand = identity(Operand.h)) => (out.kind = "Number" /\ out.val = One)

\* The m without its first row and without column c.
Minor(m, c) ==
    [r \in 1..(Len(m) - 1) |->
        [k \in 1..(Len(m) - 1) |-> IF k < c THEN m[r + 1][k] ELSE m[r + 1][k + 1]]]

\* The determinant by cofactor expansion along the first row.
RECURSIVE Cofactors(_, _)
Cofactors(m, c) ==
    IF c = 0 THEN Zero
    ELSE LET term == RMul(m[1][c], Cofactors(Minor(m, c), Len(m) - 1))
             rest == Cofactors(m, c - 1)
         IN  IF Len(m) = 1 THEN m[1][1]
             ELSE IF c % 2 = 1 THEN RAdd(rest, term) ELSE RSub(rest, term)

Leibniz(M) == IF M.h = 0 THEN One ELSE Cofactors(M.m, M.h)

\* C4: the determinant property of a square matrix returns its determinant,
\* the value of the cofactor expansion, sign included.
C4_DeterminantIsLeibniz ==
    (out.op = "determinant" /\ is_square(Operand))
        => (out.kind = "Number" /\ out.val = Leibniz(Operand))

\* C5: A * B raises when A.width # B.height and returns no matrix; otherwise
\* it returns a matrix of height A.height and width B.width.
C5_MulChecksShapes ==
    out.op = "mul" =>
        IF Operand.w # Operand2.h
        THEN out.kind = "ValueError"
        ELSE /\ out.kind = "Matrix"
             /\ out.val.h = Operand.h
             /\ out.val.w = Operand2.w

\* C6: M ** n with an integer n returns no matrix when M is not square or n
\* is negative: the call ends unsupported.
C6_PowNeedsSquareAndNonNegative ==
    (/\ out.op = "pow"
     /\ IsInt(out.args[2])
     /\ (~is_square(Operand) \/ out.args[2][1] < 0)) => out.kind = "NotImplemented"

\* The matrices of a state: the bound ones and the one just returned.
LiveMatrices ==
    {heap[k] : k \in Matrices} \cup (IF out.kind = "Matrix" THEN {out.val} ELSE {})

\* C7: every Matrix, constructed or returned by an operation, has height 0
\* exactly when it has width 0.
C7_HeightZeroIffWidthZero ==
    \A M \in LiveMatrices : (M.h = 0) <=> (M.w = 0)

\* An operation on an empty matrix returned the matrix of one zero-length
\* row, which the constructor turned into the 0 by 0 matrix.
C7_Witness ==
    /\ out.op \in {"echelon_form", "scale", "add"}
    /\ out.kind = "Matrix"
    /\ Operand.h = 0
    /\ out.val.h = 0
    /\ out.val.w = 0

\* C8: no step changes an object that exists: the stored rows, height and
\* width of every bound Matrix and the elements of every bound Vector stay as
\* they are, also while echelon_form rewrites its working list.
C8_OperandsNeverMutated ==
    [][\A k \in DOMAIN heap : k \in DOMAIN heap' /\ heap'[k] = heap[k]]_vars

\* echelon_form has rewritten a row of its working list and sorts it next,
\* while a second object is bound.
C8_Witness ==
    /\ pc = "sort"
    /\ rows # rows_of(heap[src])
    /\ Len(heap) = 2

\* C9: a + b and a - b of Vectors of different lengths raise and return no
\* vector.
C9_VectorAddChecksLength ==
    (out.op \in {"vadd", "vsub"} /\ Len(out.args[1].v) # Len(out.args[2].v))
        => out.kind = "ValueError"

\* An elimination step is about to compute rows[i][lead] / row[lead].
AtDivision ==
    /\ pc = "inner"
    /\ i < heap[src].h
    /\ leading_entry(rows[i + 1]) = lead

\* C10: whenever an elimination step of echelon_form computes its factor, the
\* divisor row[lead] is non-zero, and no call ends in a division by zero.
C10_PivotDivisorNonZero ==
    /\ AtDivision => Divisor # Zero
    /\ out.kind # "ZeroDivisionError"

\* A division whose pivot row and lower row were both rewritten by an earlier
\* pivot.
C10_Witness ==
    /\ AtDivision
    /\ row # heap[src].m[idx + 1]
    /\ rows[i + 1] # heap[src].m[i + 1]
    /\ Divisor # Zero

=============================================================================
